---- MODULE Spec2Model ----
\* A model of the change dispatcher of origami-workshop (src/index.js):
\* the chokidar 'all' handler, the spinnies status lines, the subprocesses
\* registry and the three build pipelines.
\*
\* Node runs the program on one event loop. A handler invocation runs without
\* interruption up to its next `await`; what follows the `await` runs, again
\* without interruption, when the awaited promise settles. Each action below
\* is one such uninterrupted run. The awaits of the handler are
\*   line 110  await subprocesses[file]      (the Sass compiler, an execa child)
\*   line 124  await postcss(...).process()  (the CSS post-processing pass)
\*   line 151  await esbuild.build(...)      (the JavaScript bundler)
\* The index.html branch has no await.
\*
\* Status texts are sequences of strings: the fixed words of the message, the
\* file name interpolated into it and, for an error, the diagnostic. The marks
\* that start the built and error texts in the source are not ASCII and are
\* left out of the strings.
EXTENDS Integers, Sequences, FiniteSets, TLC

VARIABLES
    spinners,       \* spinnies: file -> text of its status line, NoSpinner when it has none
    subprocesses,   \* the registry of line 67: file -> id of the registered execa child, 0 when undefined
    proc,           \* execa children: handler id -> "none" | "running" | "exited" | "killed"
    handlers,       \* handler invocations, in arrival order: id -> record (see NoHandler)
    nHandlers,      \* number of events handled so far
    artifacts,      \* public/: file -> id of the handler whose build wrote the artifact last, 0 = as at startup
    process,        \* "running" | "exit1" (process.exit(1)) | "crashed" (unhandled rejection)
    logged,         \* ids of the handlers that wrote to console.error
    unhandled,      \* ids of the handlers whose promise rejected: the error left the handler
    watched,        \* chokidar: file -> whether the watcher currently knows the file
    indexStats,     \* line 56: whether index.html was a file when the program started
    lines,          \* spinnies: file -> number of status lines created for it and not removed
    server,         \* the preview server: "created" | "binding" | "listening" | "failed"
    port,           \* line 47: the port portfinder found, 0 before
    busy,           \* the TCP ports other programs hold when the program starts
    printed         \* number of times the URL of the preview server was printed (lines 49-51)

serverVars == <<server, port, busy, printed>>

vars == <<spinners, subprocesses, proc, handlers, nHandlers, artifacts, process,
          logged, unhandled, watched, indexStats, lines, server, port, busy, printed>>

\* ---------------------------------------------------------------- bounds

MaxHandlers == 3

\* the ports from DefaultPort that other programs may hold
MaxBusy == 2

\* ---------------------------------------------------------------- constants

index == "index.html"
sass == "src/main.scss"
js == "src/main.js"

Files == {index, sass, js}

Events == {"add", "change", "unlink"}

Ids == 1..MaxHandlers

\* line 47: portfinder.getPortPromise({ port: 3000 })
DefaultPort == 3000

NoSpinner == <<>>

StartupNotice == <<"! your web page won't be visible until we create index.html">>

MissingNotice == <<"! missing index.html">>

buildingMessage(file) == <<"- building", file>>

builtMessage(file) == <<"built", file>>

\* error.stderr || error.stdout || error.message
errorDetail(error) ==
    IF error.stderr # "" THEN error.stderr
    ELSE IF error.stdout # "" THEN error.stdout
    ELSE error.message

errorMessage(file, error) == <<"error building", file, errorDetail(error)>>

\* ---------------------------------------------------------------- errors

\* The errors the handler's catch block can receive. An execa error has
\* failed = true, the child's stdout and stderr, and isCanceled = true when the
\* child was killed by cancel(). Every other error is a plain Error: the
\* properties isCanceled, failed, stderr and stdout are undefined (falsy).
PlainError(message) ==
    [isCanceled |-> FALSE, failed |-> FALSE, stderr |-> "", stdout |-> "", message |-> message]

ExecaOutputs == {"", "sass diagnostic"}

ExecaError(canceled, stderr, stdout) ==
    [isCanceled |-> canceled, failed |-> TRUE, stderr |-> stderr, stdout |-> stdout,
     message |-> "Command failed"]

\* spinnies.update and spinnies.remove of a name that has no spinner
SpinniesError == PlainError("No spinner initialized")

PostcssError == PlainError("CssSyntaxError")

WriteError == PlainError("EACCES: permission denied, open public/main.css")

EsbuildError == PlainError("Build failed with 1 error")

CopyNotSupError == PlainError("Could not copy \"index.html\". Is it a file?")

CopyIsDirError == PlainError("EISDIR: illegal operation on a directory, copyfile")

CopyOtherError == PlainError("ENOENT: no such file or directory, copyfile")

\* How fs.copyFileSync(index, public/index.html) can end. The code of the
\* error for a source that is a directory is the platform's: ENOTSUP where
\* the copy is done by copyfile(3) (macOS), EISDIR where it is done by
\* reading the source (Linux).
CopyOutcomes == {"ok", "ENOTSUP", "EISDIR", "ENOENT"}

NoError == PlainError("")

\* ---------------------------------------------------------------- handler records

NoHandler ==
    [pc |-> "unused",       \* "unused" | "awaitSass" | "awaitPostcss" | "awaitEsbuild" | "done"
     file |-> "",
     event |-> "",
     outcome |-> "none",    \* how the invocation ended: "built" | "error" | "cancelled" | "fatal"
                            \*   | "escaped" | "removed" | "missing"
     building |-> FALSE,    \* whether it set the building text on the status line (lines 71-76)
     terminal |-> 0,        \* number of built/error texts it has set on the status line
     wrote |-> FALSE,       \* whether its build wrote the output artifact
     error |-> NoError,     \* the error its catch block received
     newer |-> 0]           \* when it ended: the latest handler of a later event for its file, 0 if none

Done(h) == handlers[h].pc = "done"

\* h is pending: started by an event and not yet run to its end
Pending(h) == handlers[h].pc \in {"awaitSass", "awaitPostcss", "awaitEsbuild"}

\* the handlers of the events that have arrived for file
HandlersOf(file) == {h \in Ids : handlers[h].pc # "unused" /\ handlers[h].file = file}

\* the handler of the latest event for file, 0 when none has arrived
Latest(file) ==
    IF HandlersOf(file) = {} THEN 0
    ELSE CHOOSE h \in HandlersOf(file) : \A g \in HandlersOf(file) : g <= h

\* ---------------------------------------------------------------- pieces of the handler

\* spinnies.update(file, building) alone, its throw swallowed: a file without
\* spinner gets none
updateOnly(sp, file) ==
    IF sp[file] = NoSpinner THEN sp ELSE [sp EXCEPT ![file] = buildingMessage(file)]

\* lines 72-76: spinnies.update(file, building), and spinnies.add when update throws
updateOrAdd(sp, file) == [sp EXCEPT ![file] = buildingMessage(file)]

\* spinnies.add run for every event, whether the file has a spinner or not
addedAlways(n, sp, file) == [n EXCEPT ![file] = @ + 1]

\* lines 72-76: the status lines of file after the building text is set:
\* spinnies.add, which creates a line, runs only when spinnies.update has
\* thrown, that is when the file has no spinner
added(n, sp, file) == IF sp[file] = NoSpinner THEN [n EXCEPT ![file] = @ + 1] ELSE n

\* line 87: spinnies.remove(file) deletes the spinner of that name
removed(n, file) == [n EXCEPT ![file] = 0]

\* cancel() reaching every running child, not only the one registered for file
cancelAll(p, file) == [h \in Ids |-> IF p[h] = "running" THEN "killed" ELSE p[h]]

\* no cancel() at all
cancelNothing(p, file) == p

\* a cancel() that marks the registered child killed although it has exited
cancelExited(p, file) ==
    IF subprocesses[file] # 0 /\ p[subprocesses[file]] \in {"running", "exited"}
    THEN [p EXCEPT ![subprocesses[file]] = "killed"]
    ELSE p

\* lines 80-82: subprocesses[file].cancel() when a child is registered for the
\* file. execa's cancel() kills a child that is still running, whose promise
\* then rejects with isCanceled = true; on a child that has exited it does nothing.
cancel(p, file) ==
    IF subprocesses[file] # 0 /\ p[subprocesses[file]] = "running"
    THEN [p EXCEPT ![subprocesses[file]] = "killed"]
    ELSE p

\* What the end of a handler invocation does:
\*   sp       the status lines it leaves
\*   exit     whether it called process.exit(1)
\*   log      whether it wrote to console.error
\*   escaped  whether an error left the handler (its promise rejects)
\*   outcome  how it ended
\*   terminal the number of built/error texts it set
\*   error    the error its catch block received
Ending(sp, exit, log, escaped, outcome, terminal, error) ==
    [sp |-> sp, exit |-> exit, log |-> log, escaped |-> escaped,
     outcome |-> outcome, terminal |-> terminal, error |-> error]

\* the catch block without the exit for a failure that has no output
catchShowsSilentFailure(file, error, sp) ==
    IF error.isCanceled
    THEN Ending(sp, FALSE, FALSE, FALSE, "cancelled", 0, error)
    ELSE IF sp[file] = NoSpinner
    THEN Ending(sp, FALSE, FALSE, TRUE, "escaped", 0, error)
    ELSE Ending([sp EXCEPT ![file] = errorMessage(file, error)],
                FALSE, FALSE, FALSE, "error", 1, error)

\* the catch block without the isCanceled check of lines 173-176
catchIgnoresCancel(file, error, sp) ==
    IF error.failed /\ (error.stderr = "" /\ error.stdout = "")
    THEN Ending(sp, TRUE, TRUE, FALSE, "fatal", 0, error)
    ELSE IF sp[file] = NoSpinner
    THEN Ending(sp, FALSE, FALSE, TRUE, "escaped", 0, error)
    ELSE Ending([sp EXCEPT ![file] = errorMessage(file, error)],
                FALSE, FALSE, FALSE, "error", 1, error)

\* the catch block without the spinnies.update of line 183: an error that is
\* shown nowhere
catchSwallows(file, error, sp) ==
    IF error.isCanceled
    THEN Ending(sp, FALSE, FALSE, FALSE, "cancelled", 0, error)
    ELSE IF error.failed /\ (error.stderr = "" /\ error.stdout = "")
    THEN Ending(sp, TRUE, TRUE, FALSE, "fatal", 0, error)
    ELSE Ending(sp, FALSE, FALSE, FALSE, "error", 0, error)

\* the catch block with an exit for every failure of a subprocess, with or
\* without output
catchExitsOnFailed(file, error, sp) ==
    IF error.isCanceled
    THEN Ending(sp, FALSE, FALSE, FALSE, "cancelled", 0, error)
    ELSE IF error.failed
    THEN Ending(sp, TRUE, TRUE, FALSE, "fatal", 0, error)
    ELSE IF sp[file] = NoSpinner
    THEN Ending(sp, FALSE, FALSE, TRUE, "escaped", 0, error)
    ELSE Ending([sp EXCEPT ![file] = errorMessage(file, error)],
                FALSE, FALSE, FALSE, "error", 1, error)

\* lines 172-184: the catch block. The spinnies.update of line 183 throws when
\* the file has no spinner; nothing catches that error.
catch(file, error, sp) ==
    IF error.isCanceled
    THEN Ending(sp, FALSE, FALSE, FALSE, "cancelled", 0, error)
    ELSE IF error.failed /\ (error.stderr = "" /\ error.stdout = "")
    THEN Ending(sp, TRUE, TRUE, FALSE, "fatal", 0, error)
    ELSE IF sp[file] = NoSpinner
    THEN Ending(sp, FALSE, FALSE, TRUE, "escaped", 0, error)
    ELSE Ending([sp EXCEPT ![file] = errorMessage(file, error)],
                FALSE, FALSE, FALSE, "error", 1, error)

\* a successful build that ends without spinnies.update: the status line
\* keeps the text it had
builtKeepsText(file, sp) ==
    Ending(sp, FALSE, FALSE, FALSE, "built", 0, NoError)

\* the built text set as the building text is: added when the file has no spinner
builtOrAdd(file, sp) ==
    Ending([sp EXCEPT ![file] = builtMessage(file)], FALSE, FALSE, FALSE, "built", 1, NoError)

\* lines 146, 157, 170: spinnies.update(file, built), inside the try block:
\* it throws when the file has no spinner, and the catch block gets the error.
built(file, sp) ==
    IF sp[file] = NoSpinner
    THEN catch(file, SpinniesError, sp)
    ELSE Ending([sp EXCEPT ![file] = builtMessage(file)], FALSE, FALSE, FALSE, "built", 1, NoError)

\* lines 162-169: the error thrown when fs.copyFileSync fails: the error of
\* code ENOTSUP is replaced, every other error is thrown as it is
copyError(code) ==
    IF code = "ENOTSUP" THEN CopyNotSupError
    ELSE IF code = "EISDIR" THEN CopyIsDirError
    ELSE CopyOtherError

\* The handler invocation h, which set the building text or not, ends with e,
\* its build having written the artifact or not. Nothing handles the rejected
\* promise of a handler an error has left: Node, by its version and flags,
\* either warns and goes on or ends the process.
End(h, file, event, began, e, writes) ==
    /\ spinners' = e.sp
    /\ process' \in IF e.exit THEN {"exit1"}
                    ELSE IF e.escaped THEN {process, "crashed"}
                    ELSE {process}
    /\ logged' = IF e.log THEN logged \cup {h} ELSE logged
    /\ unhandled' = IF e.escaped THEN unhandled \cup {h} ELSE unhandled
    /\ artifacts' = IF writes THEN [artifacts EXCEPT ![file] = h] ELSE artifacts
    /\ handlers' = [handlers EXCEPT ![h] =
            [pc |-> "done", file |-> file, event |-> event, outcome |-> e.outcome,
             building |-> began, terminal |-> e.terminal, wrote |-> writes,
             error |-> e.error,
             newer |-> IF Latest(file) > h THEN Latest(file) ELSE 0]]

\* The handler invocation h suspends at an await.
Suspend(h, file, event, began, pc) ==
    handlers' = [handlers EXCEPT ![h] =
        [NoHandler EXCEPT !.pc = pc, !.file = file, !.event = event, !.building = began]]

\* whether lines 71-76 left the building text on the status line of file
Began(sp, file) == sp[file] = buildingMessage(file)

\* ---------------------------------------------------------------- the watcher

\* chokidar reports add for a file it does not know, change and unlink for a
\* file it knows; it does so once the watcher is set up (line 68). Its
\* events come from file system callbacks, which run after the listening
\* callback that the same run queued at line 48.
Emits(file, event) ==
    /\ process = "running"
    /\ server = "listening"
    /\ nHandlers < MaxHandlers
    /\ IF event = "add" THEN ~watched[file] ELSE watched[file]

Arrive(file, event) ==
    /\ nHandlers' = nHandlers + 1
    /\ watched' = [watched EXCEPT ![file] = (event # "unlink")]

\* ---------------------------------------------------------------- the handler, event by event

\* lines 68-89: unlink of src/main.scss or src/main.js
EventUnlinkSource(file) ==
    /\ file \in {sass, js}
    /\ Emits(file, "unlink")
    /\ Arrive(file, "unlink")
    /\ proc' = cancel(proc, file)
    /\ End(nHandlers + 1, file, "unlink", Began(updateOrAdd(spinners, file), file),
           Ending([updateOrAdd(spinners, file) EXCEPT ![file] = NoSpinner],
                  FALSE, FALSE, FALSE, "removed", 0, NoError),
           FALSE)
    /\ lines' = removed(added(lines, spinners, file), file)
    /\ UNCHANGED <<subprocesses, indexStats>>
    /\ UNCHANGED serverVars

\* unlink of index.html without the return of line 96: the copy runs
EventUnlinkIndexNoReturn ==
    /\ Emits(index, "unlink")
    /\ Arrive(index, "unlink")
    /\ proc' = cancel(proc, index)
    /\ End(nHandlers + 1, index, "unlink", Began(updateOrAdd(spinners, index), index),
           built(index, [updateOrAdd(spinners, index) EXCEPT ![index] = MissingNotice]),
           TRUE)
    /\ lines' = added(lines, spinners, index)
    /\ UNCHANGED <<subprocesses, indexStats>>
    /\ UNCHANGED serverVars

\* lines 68-97: unlink of index.html
EventUnlinkIndex ==
    /\ Emits(index, "unlink")
    /\ Arrive(index, "unlink")
    /\ proc' = cancel(proc, index)
    /\ End(nHandlers + 1, index, "unlink", Began(updateOrAdd(spinners, index), index),
           Ending([updateOrAdd(spinners, index) EXCEPT ![index] = MissingNotice],
                  FALSE, FALSE, FALSE, "missing", 0, NoError),
           FALSE)
    /\ lines' = added(lines, spinners, index)
    /\ UNCHANGED <<subprocesses, indexStats>>
    /\ UNCHANGED serverVars

\* add or change of src/main.scss with the child of execa kept out of the
\* registry
EventSassNoRegister(event) ==
    /\ event \in {"add", "change"}
    /\ Emits(sass, event)
    /\ Arrive(sass, event)
    /\ spinners' = updateOrAdd(spinners, sass)
    /\ proc' = [cancel(proc, sass) EXCEPT ![nHandlers + 1] = "running"]
    /\ subprocesses' = subprocesses
    /\ Suspend(nHandlers + 1, sass, event, Began(updateOrAdd(spinners, sass), sass), "awaitSass")
    /\ lines' = added(lines, spinners, sass)
    /\ UNCHANGED <<artifacts, process, logged, unhandled, indexStats>>
    /\ UNCHANGED serverVars

\* lines 68-110: add or change of src/main.scss, up to the await of the Sass compiler
EventSass(event) ==
    /\ event \in {"add", "change"}
    /\ Emits(sass, event)
    /\ Arrive(sass, event)
    /\ spinners' = updateOrAdd(spinners, sass)
    /\ proc' = [cancel(proc, sass) EXCEPT ![nHandlers + 1] = "running"]
    /\ subprocesses' = [subprocesses EXCEPT ![sass] = nHandlers + 1]
    /\ Suspend(nHandlers + 1, sass, event, Began(updateOrAdd(spinners, sass), sass), "awaitSass")
    /\ lines' = added(lines, spinners, sass)
    /\ UNCHANGED <<artifacts, process, logged, unhandled, indexStats>>
    /\ UNCHANGED serverVars

\* lines 68-82, 150-156: add or change of src/main.js, up to the await of the bundler
EventJs(event) ==
    /\ event \in {"add", "change"}
    /\ Emits(js, event)
    /\ Arrive(js, event)
    /\ spinners' = updateOrAdd(spinners, js)
    /\ proc' = cancel(proc, js)
    /\ Suspend(nHandlers + 1, js, event, Began(updateOrAdd(spinners, js), js), "awaitEsbuild")
    /\ lines' = added(lines, spinners, js)
    /\ UNCHANGED <<subprocesses, artifacts, process, logged, unhandled, indexStats>>
    /\ UNCHANGED serverVars

\* add or change of index.html without fs.copyFileSync: public/index.html is
\* left as it was
EventIndexNoCopy(event, copy) ==
    /\ event \in {"add", "change"}
    /\ copy \in CopyOutcomes
    /\ Emits(index, event)
    /\ Arrive(index, event)
    /\ proc' = cancel(proc, index)
    /\ End(nHandlers + 1, index, event, Began(updateOrAdd(spinners, index), index),
           IF copy = "ok"
           THEN built(index, updateOrAdd(spinners, index))
           ELSE catch(index, copyError(copy), updateOrAdd(spinners, index)),
           FALSE)
    /\ lines' = added(lines, spinners, index)
    /\ UNCHANGED <<subprocesses, indexStats>>
    /\ UNCHANGED serverVars

\* lines 68-82, 160-184: add or change of index.html; the copy is synchronous
EventIndex(event, copy) ==
    /\ event \in {"add", "change"}
    /\ copy \in CopyOutcomes
    /\ Emits(index, event)
    /\ Arrive(index, event)
    /\ proc' = cancel(proc, index)
    /\ End(nHandlers + 1, index, event, Began(updateOrAdd(spinners, index), index),
           IF copy = "ok"
           THEN built(index, updateOrAdd(spinners, index))
           ELSE catch(index, copyError(copy), updateOrAdd(spinners, index)),
           copy = "ok")
    /\ lines' = added(lines, spinners, index)
    /\ UNCHANGED <<subprocesses, indexStats>>
    /\ UNCHANGED serverVars

\* ---------------------------------------------------------------- the handler, after its awaits

\* line 110 and what follows: the promise of the Sass compiler settles. A
\* killed child rejects with isCanceled; a child that ran to its end resolves,
\* and the handler goes on to the await of line 124, or rejects with the
\* child's output.
SassSettles(h, ok, stderr, stdout) ==
    /\ process = "running"
    /\ handlers[h].pc = "awaitSass"
    /\ IF proc[h] = "killed"
       THEN /\ End(h, sass, handlers[h].event, handlers[h].building,
                   catch(sass, ExecaError(TRUE, stderr, stdout), spinners), FALSE)
            /\ UNCHANGED proc
       ELSE /\ proc' = [proc EXCEPT ![h] = "exited"]
            /\ IF ok
               THEN /\ Suspend(h, sass, handlers[h].event, handlers[h].building, "awaitPostcss")
                    /\ UNCHANGED <<spinners, artifacts, process, logged, unhandled>>
               ELSE End(h, sass, handlers[h].event, handlers[h].building,
                        catch(sass, ExecaError(FALSE, stderr, stdout), spinners), FALSE)
    /\ UNCHANGED <<subprocesses, nHandlers, watched, indexStats, lines>>
    /\ UNCHANGED serverVars

\* the post-processing pass settles and the status line is updated whether
\* fs.writeFileSync has written the CSS or thrown
PostcssSettlesWriteIgnored(h, result) ==
    /\ process = "running"
    /\ handlers[h].pc = "awaitPostcss"
    /\ result \in {"ok", "syntax", "write"}
    /\ End(h, sass, handlers[h].event, handlers[h].building,
           CASE result = "ok" -> built(sass, spinners)
             [] result = "syntax" -> catch(sass, PostcssError, spinners)
             [] result = "write" -> built(sass, spinners),
           result = "ok")
    /\ UNCHANGED <<subprocesses, proc, nHandlers, watched, indexStats, lines>>
    /\ UNCHANGED serverVars

\* lines 124-147: the post-processing pass settles; on success the CSS is
\* written (fs.writeFileSync, which can throw) and the status line is updated
PostcssSettles(h, result) ==
    /\ process = "running"
    /\ handlers[h].pc = "awaitPostcss"
    /\ result \in {"ok", "syntax", "write"}
    /\ End(h, sass, handlers[h].event, handlers[h].building,
           CASE result = "ok" -> built(sass, spinners)
             [] result = "syntax" -> catch(sass, PostcssError, spinners)
             [] result = "write" -> catch(sass, WriteError, spinners),
           result = "ok")
    /\ UNCHANGED <<subprocesses, proc, nHandlers, watched, indexStats, lines>>
    /\ UNCHANGED serverVars

\* lines 151-157: the bundler settles; esbuild has written public/main.js
\* when its promise resolves
EsbuildSettles(h, ok) ==
    /\ process = "running"
    /\ handlers[h].pc = "awaitEsbuild"
    /\ End(h, js, handlers[h].event, handlers[h].building,
           IF ok THEN built(js, spinners) ELSE catch(js, EsbuildError, spinners),
           ok)
    /\ UNCHANGED <<subprocesses, proc, nHandlers, watched, indexStats, lines>>
    /\ UNCHANGED serverVars

\* ---------------------------------------------------------------- specification

\* startup without the notice of lines 57-61
InitNoNotice ==
    /\ indexStats \in BOOLEAN
    /\ spinners = [f \in Files |-> NoSpinner]
    /\ lines = [f \in Files |-> 0]
    /\ server = "listening" /\ port = DefaultPort /\ busy = {} /\ printed = 1
    /\ subprocesses = [f \in Files |-> 0]
    /\ proc = [h \in Ids |-> "none"]
    /\ handlers = [h \in Ids |-> NoHandler]
    /\ nHandlers = 0
    /\ artifacts = [f \in Files |-> 0]
    /\ process = "running"
    /\ logged = {}
    /\ unhandled = {}
    /\ watched = [f \in Files |-> FALSE]

\* lines 25-67: after startup, with the preview server listening on port
\* 3000. The notice of line 58 is there when index.html is not a file.
Init ==
    /\ indexStats \in BOOLEAN
    /\ spinners = [f \in Files |-> IF f = index /\ ~indexStats THEN StartupNotice ELSE NoSpinner]
    /\ lines = [f \in Files |-> IF f = index /\ ~indexStats THEN 1 ELSE 0]
    /\ server = "listening" /\ port = DefaultPort /\ busy = {} /\ printed = 1
    /\ subprocesses = [f \in Files |-> 0]
    /\ proc = [h \in Ids |-> "none"]
    /\ handlers = [h \in Ids |-> NoHandler]
    /\ nHandlers = 0
    /\ artifacts = [f \in Files |-> 0]
    /\ process = "running"
    /\ logged = {}
    /\ unhandled = {}
    /\ watched = [f \in Files |-> FALSE]

Next ==
    \/ \E file \in Files : EventUnlinkSource(file)
    \/ EventUnlinkIndex
    \/ \E event \in Events : EventSass(event)
    \/ \E event \in Events : EventJs(event)
    \/ \E event \in Events, copy \in CopyOutcomes : EventIndex(event, copy)
    \/ \E h \in Ids, ok \in BOOLEAN, stderr \in ExecaOutputs, stdout \in ExecaOutputs :
         SassSettles(h, ok, stderr, stdout)
    \/ \E h \in Ids, result \in {"ok", "syntax", "write"} : PostcssSettles(h, result)
    \/ \E h \in Ids, ok \in BOOLEAN : EsbuildSettles(h, ok)

Spec == Init /\ [][Next]_vars

\* ---------------------------------------------------------------- notions the claims use

\* h is the handler of an add or change event: it runs a pipeline
Builds(h) == handlers[h].pc # "unused" /\ handlers[h].event \in {"add", "change"}

\* g handles the event that follows h's for the same file
Successive(h, g) ==
    /\ handlers[h].pc # "unused" /\ handlers[g].pc # "unused"
    /\ handlers[h].file = handlers[g].file
    /\ h < g
    /\ ~ \E k \in Ids : h < k /\ k < g /\ handlers[k].pc # "unused" /\ handlers[k].file = handlers[h].file

\* The diagnostic text of a failure: the output of the tool when the failure
\* is that of a subprocess, the message of the error otherwise.
DiagnosticText(error) ==
    IF error.failed
    THEN (IF error.stderr # "" THEN error.stderr ELSE error.stdout)
    ELSE error.message

\* h ended with a failure of its pipeline that is not a cancellation
PipelineFailed(h) ==
    /\ Done(h)
    /\ handlers[h].error \notin {NoError, SpinniesError}
    /\ ~handlers[h].error.isCanceled

\* ---------------------------------------------------------------- C1

\* C1: when a change event for a path arrives while the build of the previous
\* change event for that path has not settled, the first build never sets a
\* built or error text on the status line afterwards, and the second build,
\* once it has ended with no later event for the path and without the fatal
\* exit, has set exactly one.
C1_OnlySecondBuildSetsStatus ==
    \A h \in Ids, g \in Ids :
        ( /\ Successive(h, g)
          /\ handlers[h].event = "change" /\ handlers[g].event = "change"
          /\ (Pending(h) \/ handlers[h].newer # 0) )
        => /\ handlers[h].terminal = 0
           /\ (Done(g) /\ handlers[g].newer = 0 /\ handlers[g].outcome # "fatal")
                 => handlers[g].terminal = 1

\* ---------------------------------------------------------------- C2

\* a build task is live: started, not settled, and not invalidated by cancel()
Live(h) == Pending(h) /\ proc[h] # "killed"

\* C2: at most one build task per watched path is live at any time.
C2_AtMostOneLiveBuild ==
    \A file \in Files : Cardinality({h \in HandlersOf(file) : Live(h)}) <= 1

\* ---------------------------------------------------------------- C3

\* C3: every add or change event sets the building text, and its build, once
\* it has ended other than by cancellation (or by the explicit exit of the
\* process, which ends every build), has set the status exactly once, to the
\* built text or to an error text.
C3_BuildingThenOneTerminalStatus ==
    \A h \in Ids :
        Builds(h) =>
            /\ handlers[h].building
            /\ handlers[h].terminal <= 1
            /\ (Done(h) /\ handlers[h].outcome \notin {"cancelled", "fatal"})
                 => handlers[h].terminal = 1

\* ---------------------------------------------------------------- C4

\* C4: a handler whose pipeline failed with no diagnostic text, the failure not
\* being a cancellation, has reported on the error channel and ended the
\* process with exit status 1, and has set no error text on the status line.
C4_SilentFailureIsFatal ==
    \A h \in Ids :
        (PipelineFailed(h) /\ DiagnosticText(handlers[h].error) = "")
        => /\ h \in logged
           /\ process = "exit1"
           /\ handlers[h].outcome = "fatal"
           /\ handlers[h].terminal = 0

C4_Witness ==
    \E h \in Ids :
        /\ PipelineFailed(h) /\ DiagnosticText(handlers[h].error) = ""
        /\ handlers[h].file = sass
        /\ process = "exit1"

\* ---------------------------------------------------------------- C5

\* C5: a handler whose pipeline failed with diagnostic text has set the error
\* text on the status line of its path, and no error has left it: it neither
\* ended the process nor let it crash.
C5_DiagnosticFailureIsShown ==
    \A h \in Ids :
        (PipelineFailed(h) /\ DiagnosticText(handlers[h].error) # "")
        => /\ handlers[h].outcome = "error"
           /\ handlers[h].terminal = 1
           /\ h \notin unhandled

\* ---------------------------------------------------------------- C6

\* C6: a build whose subprocess was killed by cancel() causes nothing
\* observable from then on: its handler sets no built or error text, writes no
\* artifact, logs nothing on the error channel, lets no error out and does not
\* end the process; it ends as cancelled.
C6_CancelledBuildIsSilent ==
    \A h \in Ids :
        proc[h] = "killed"
        => /\ handlers[h].terminal = 0
           /\ ~handlers[h].wrote
           /\ h \notin logged
           /\ h \notin unhandled
           /\ handlers[h].outcome \in {"none", "cancelled"}
           /\ (handlers[h].outcome = "none" <=> Pending(h))

C6_Witness ==
    \E h \in Ids :
        /\ proc[h] = "killed" /\ Done(h)
        /\ handlers[h].error.isCanceled
        /\ handlers[h].error.stderr = "" /\ handlers[h].error.stdout = ""
        /\ process = "running"

\* ---------------------------------------------------------------- C7

\* C7: no error leaves a handler; the process ends only by the explicit exit.
C7_NoErrorEscapes == unhandled = {} /\ process # "crashed"

\* ---------------------------------------------------------------- C8

\* C8: while the latest event for src/main.scss or src/main.js is an unlink,
\* the path has no status line, and the handler of that event started no
\* pipeline: it ran to its end, registered no subprocess and wrote nothing.
C8_UnlinkedSourceHasNoLine ==
    \A file \in {sass, js} :
        (Latest(file) # 0 /\ handlers[Latest(file)].event = "unlink")
        => /\ spinners[file] = NoSpinner
           /\ handlers[Latest(file)].outcome = "removed"
           /\ Done(Latest(file))
           /\ proc[Latest(file)] = "none"
           /\ subprocesses[file] # Latest(file)
           /\ ~handlers[Latest(file)].wrote

\* a build that was in flight when the unlink event arrived has ended since
C8_Witness ==
    \E file \in {sass, js}, h \in Ids :
        /\ Latest(file) # 0 /\ handlers[Latest(file)].event = "unlink"
        /\ Builds(h) /\ Done(h) /\ handlers[h].file = file
        /\ handlers[h].newer = Latest(file)
        /\ handlers[h].wrote

\* ---------------------------------------------------------------- C9

\* C9: while the latest event for index.html is an unlink, the status line of
\* index.html is the missing-index notice, and the handler of that event
\* copied nothing: public/index.html is not its work.
C9_UnlinkedIndexShowsMissing ==
    (Latest(index) # 0 /\ handlers[Latest(index)].event = "unlink")
    => /\ spinners[index] = MissingNotice
       /\ handlers[Latest(index)].outcome = "missing"
       /\ ~handlers[Latest(index)].wrote
       /\ artifacts[index] # Latest(index)
       /\ \A h \in HandlersOf(index) : Done(h)

\* index.html was copied, then removed
C9_Witness ==
    /\ Latest(index) # 0 /\ handlers[Latest(index)].event = "unlink"
    /\ artifacts[index] # 0

\* ---------------------------------------------------------------- C10

\* the handler of the first event for file
First(file) == CHOOSE h \in HandlersOf(file) : \A g \in HandlersOf(file) : h <= g

\* C10: when index.html was absent at startup, its status line is the startup
\* notice as long as no event for index.html has arrived, whatever events
\* arrive for the other paths; the first event for index.html is an add, its
\* handler sets the building text and, when its copy succeeds, the built text.
C10_StartupNoticeUntilAdd ==
    ~indexStats =>
        IF HandlersOf(index) = {}
        THEN spinners[index] = StartupNotice
        ELSE /\ handlers[First(index)].event = "add"
             /\ handlers[First(index)].building
             /\ handlers[First(index)].wrote => handlers[First(index)].outcome = "built"
             /\ (handlers[First(index)].wrote /\ Latest(index) = First(index))
                   => spinners[index] = builtMessage(index)
             /\ spinners[index] # StartupNotice

\* events for the other paths came first, then index.html was added and copied
C10_Witness ==
    /\ ~indexStats
    /\ HandlersOf(sass) # {} /\ HandlersOf(js) # {}
    /\ HandlersOf(index) # {}
    /\ \A h \in HandlersOf(sass) \cup HandlersOf(js) : h < First(index)
    /\ spinners[index] = builtMessage(index)

\* ---------------------------------------------------------------- C11

\* h's Sass pipeline failed in one of its two steps: the compiler or the
\* post-processing pass
SassStepFailed(h) ==
    /\ PipelineFailed(h)
    /\ handlers[h].file = sass
    /\ (handlers[h].error.failed \/ handlers[h].error = PostcssError)

\* C11: a Sass build that failed with a diagnostic in either step has set the
\* error text on the status line of src/main.scss and has not written
\* public/main.css.
C11_SassFailureShownCssUntouched ==
    \A h \in Ids :
        (SassStepFailed(h) /\ DiagnosticText(handlers[h].error) # "")
        => /\ handlers[h].outcome = "error"
           /\ handlers[h].terminal = 1
           /\ ~handlers[h].wrote
           /\ artifacts[sass] # h

\* ---------------------------------------------------------------- C12

\* the handlers whose build wrote the artifact of file
Writers(file) == {h \in HandlersOf(file) : handlers[h].wrote}

\* C12: no build writes its artifact after a later event for its path has
\* arrived, and once every build of a path has settled the artifact is that of
\* the latest build that succeeded.
C12_OnlyLatestBuildWritesArtifact ==
    /\ \A h \in Ids : handlers[h].wrote => handlers[h].newer = 0
    /\ \A file \in Files :
         ((\A h \in HandlersOf(file) : Done(h)) /\ Writers(file) # {})
         => artifacts[file] = CHOOSE h \in Writers(file) : \A g \in Writers(file) : g <= h

\* ---------------------------------------------------------------- C13

\* the external tool of h's pipeline is running: the Sass compiler child, or
\* the bundler working on the build esbuild.build asked for
ToolRunning(h) == proc[h] = "running" \/ handlers[h].pc = "awaitEsbuild"

\* C13: an event for a path ends the tool still running for that path before
\* it starts a new one: no two runs of the external tool for one path at once.
C13_OneToolRunPerPath ==
    \A file \in Files : Cardinality({h \in HandlersOf(file) : ToolRunning(h)}) <= 1

\* ---------------------------------------------------------------- C14

\* the step is a run of handler h: the handling of its event or a
\* continuation after one of its awaits
RunOf(h) == handlers'[h] # handlers[h]

\* C14: a run of a handler for one path leaves every other path as it was:
\* its status line, its registered subprocess (which is not cancelled), its
\* handlers and its artifact.
C14_OtherPathsUntouched ==
    [][\A h \in Ids :
          RunOf(h) =>
              \A other \in Files \ {handlers'[h].file} :
                  /\ spinners'[other] = spinners[other]
                  /\ subprocesses'[other] = subprocesses[other]
                  /\ artifacts'[other] = artifacts[other]
                  /\ \A g \in HandlersOf(other) :
                       handlers'[g] = handlers[g] /\ proc'[g] = proc[g]]_vars

\* builds of two paths are in flight together, each with its own status line
C14_Witness ==
    \E h \in HandlersOf(sass), g \in HandlersOf(js) :
        /\ proc[h] = "running" /\ subprocesses[sass] = h
        /\ handlers[g].pc = "awaitEsbuild"
        /\ g > h
        /\ spinners[sass] = buildingMessage(sass)
        /\ spinners[js] = buildingMessage(js)

\* ------------------------------------------------------------ startup

\* line 47: portfinder.getPortPromise({ port: start }) answers the first port
\* from start that no program holds
getPortPromise(start, inuse) ==
    CHOOSE p \in start..(start + MaxBusy) :
        p \notin inuse /\ \A q \in start..(p - 1) : q \in inuse

\* lines 33-47: the program has created the public directory and the server
\* and awaits portfinder
ServerInit ==
    /\ indexStats \in BOOLEAN
    /\ busy \in SUBSET (DefaultPort..(DefaultPort + MaxBusy - 1))
    /\ server = "created" /\ port = 0 /\ printed = 0
    /\ spinners = [f \in Files |-> NoSpinner]
    /\ lines = [f \in Files |-> 0]
    /\ subprocesses = [f \in Files |-> 0]
    /\ proc = [h \in Ids |-> "none"]
    /\ handlers = [h \in Ids |-> NoHandler]
    /\ nHandlers = 0
    /\ artifacts = [f \in Files |-> 0]
    /\ process = "running"
    /\ logged = {}
    /\ unhandled = {}
    /\ watched = [f \in Files |-> FALSE]

\* lines 47-68: portfinder answers; server.listen(port) binds, the notice of
\* line 58 is added when index.html is not a file, the watcher is set up.
\* taken: another program bound the port after portfinder had probed it; the
\* server then emits 'error', which nothing handles, and the process ends.
GetPort(taken) ==
    /\ server = "created"
    /\ port' = getPortPromise(DefaultPort, busy)
    /\ busy' = IF taken THEN busy \cup {port'} ELSE busy
    /\ server' = IF taken THEN "failed" ELSE "binding"
    /\ process' = IF taken THEN "crashed" ELSE process
    /\ spinners' = [spinners EXCEPT ![index] = IF indexStats THEN @ ELSE StartupNotice]
    /\ lines' = [lines EXCEPT ![index] = IF indexStats THEN @ ELSE 1]
    /\ UNCHANGED <<subprocesses, proc, handlers, nHandlers, artifacts, logged,
                   unhandled, watched, indexStats, printed>>

\* lines 48-52: the callback of server.listen prints the URL with the port
ListenCallback ==
    /\ server = "binding"
    /\ process = "running"
    /\ server' = "listening"
    /\ printed' = printed + 1
    /\ UNCHANGED <<spinners, subprocesses, proc, handlers, nHandlers, artifacts,
                   process, logged, unhandled, watched, indexStats, lines, port, busy>>

ServerNext ==
    \/ \E taken \in BOOLEAN : GetPort(taken)
    \/ ListenCallback
    \/ Next

\* the program from its start
ServerSpec == ServerInit /\ [][ServerNext]_vars

\* ---------------------------------------------------------------- C16

\* the preview server accepts connections
ServerListening == server = "listening" /\ process = "running"

\* C16: the URL of the preview server is printed at most once, only when the
\* server listens on the printed port, which is the first free port from
\* 3000; and once it is printed the server keeps listening whatever events,
\* diagnosed build failures and cancellations follow (only the exit on a
\* failure without diagnostic ends it).
C16_UrlPrintedOnceServerStaysUp ==
    /\ printed <= 1
    /\ printed = 1 =>
           /\ server = "listening"
           /\ port >= DefaultPort /\ port \notin busy
           /\ \A q \in DefaultPort..(port - 1) : q \in busy
    /\ (printed = 1 /\ process # "exit1") => ServerListening

\* ---------------------------------------------------------------- C15

\* C15: every path has at most one status line, and it has one exactly when
\* spinnies holds a spinner for it: no event and no build outcome creates a
\* second line.
C15_OneStatusLinePerPath ==
    \A file \in Files :
        /\ lines[file] <= 1
        /\ lines[file] = 1 <=> spinners[file] # NoSpinner

\* a line was removed, created again by the next event and updated in place
\* by the build of that event
C15_Witness ==
    \E g \in Ids, h \in Ids :
        /\ Successive(g, h)
        /\ handlers[g].outcome = "removed"
        /\ handlers[h].outcome \in {"built", "error"}
        /\ lines[handlers[h].file] = 1

\* ---------------------------------------------------------------- C17

\* C17: a handler of an add or change of index.html whose copy did not fail
\* wrote public/index.html and ended with the built text; as long as no later
\* event for index.html has arrived, public/index.html holds the content that
\* handler copied and the status line of index.html is the built text.
C17_IndexCopiedAndBuilt ==
    \A h \in HandlersOf(index) :
        (Builds(h) /\ Done(h) /\ handlers[h].error = NoError)
            => /\ handlers[h].wrote
               /\ handlers[h].outcome = "built"
               /\ handlers[h].terminal = 1
               /\ Latest(index) = h =>
                      /\ artifacts[index] = h
                      /\ spinners[index] = builtMessage(index)

\* index.html was changed after it had been added, and the second copy is the
\* one in public/index.html
C17_Witness ==
    \E g \in HandlersOf(index), h \in HandlersOf(index) :
        /\ Successive(g, h)
        /\ handlers[g].outcome = "built"
        /\ handlers[h].event = "change" /\ handlers[h].outcome = "built"
        /\ artifacts[index] = h
        /\ spinners[index] = builtMessage(index)

\* ---------------------------------------------------------------- C19

RanPipeline(h) ==
    \/ Pending(h)
    \/ /\ Done(h)
       /\ handlers[h].outcome \in {"built", "error", "cancelled", "fatal", "escaped"}

\* C20: whatever the handler of the previous event for the file did (removed
\* the line, set the missing notice, built, failed), the handler of an add or
\* change sets the building text, on a line it creates when there is none,
\* and runs the pipeline of the file.
C20_EveryStateReentersBuilding ==
    \A h \in Ids :
        Builds(h) =>
            /\ handlers[h].building
            /\ RanPipeline(h)
            /\ handlers[h].file = sass => proc[h] # "none"
            /\ (Pending(h) /\ Latest(handlers[h].file) = h)
                   => /\ lines[handlers[h].file] = 1
                      /\ spinners[handlers[h].file] # NoSpinner

\* a file was built again after its line had been removed
C20_Witness ==
    \E g \in Ids, h \in Ids :
        /\ Successive(g, h)
        /\ handlers[g].outcome = "removed"
        /\ Builds(h)
        /\ handlers[h].building
        /\ handlers[h].outcome = "built"
        /\ spinners[handlers[h].file] = builtMessage(handlers[h].file)

\* ---------------------------------------------------------------- C21

\* this step is the arrival of the event that handler h handles
ArrivalOf(h) == handlers[h].pc = "unused" /\ handlers'[h].pc # "unused"

\* every build the earlier events for file started has settled
AllSettled(file) == \A g \in HandlersOf(file) : Done(g)

\* C21: when an event arrives for a file whose earlier builds have all
\* settled, the cancel() of lines 80-82 does nothing: the records and the
\* children of the earlier handlers stay as they are, the artifact is
\* written by nobody but the new handler, no error leaves the handler and the
\* process goes on; the new handler sets its status line and an add or change
\* of src/main.scss starts its own child and registers it.
C21_CancelOfSettledTaskIsNoOp ==
    [][\A h \in Ids :
          (ArrivalOf(h) /\ AllSettled(handlers'[h].file)) =>
              LET file == handlers'[h].file IN
              /\ \A g \in HandlersOf(file) : handlers'[g] = handlers[g] /\ proc'[g] = proc[g]
              /\ artifacts'[file] \in {artifacts[file], h}
              /\ unhandled' = unhandled /\ logged' = logged /\ process' = process
              /\ handlers'[h].building
              /\ handlers'[h].event = "unlink" =>
                     spinners'[file] = (IF file = index THEN MissingNotice ELSE NoSpinner)
              /\ (handlers'[h].event # "unlink" /\ file # index) =>
                     /\ spinners'[file] = buildingMessage(file)
                     /\ Pending(h)'
              /\ (handlers'[h].event # "unlink" /\ file = sass) =>
                     proc'[h] = "running" /\ subprocesses'[sass] = h]_vars

\* src/main.scss was built, its child exited and still registered, when the
\* next event for it arrived and started a child of its own
C21_Witness ==
    \E g \in HandlersOf(sass), h \in HandlersOf(sass) :
        /\ Successive(g, h)
        /\ handlers[g].outcome \in {"built", "error"}
        /\ handlers[g].newer = 0
        /\ proc[g] = "exited"
        /\ proc[h] = "running"
        /\ subprocesses[sass] = h

\* ---------------------------------------------------------------- C22

\* the copy of h failed because index.html is not a regular file
SourceNotAFile(h) == handlers[h].error \in {CopyNotSupError, CopyIsDirError}

\* the copy of h failed
CopyFailed(h) ==
    /\ h \in HandlersOf(index) /\ Done(h)
    /\ handlers[h].error \in {CopyNotSupError, CopyIsDirError, CopyOtherError}

\* C22: a copy of index.html that fails leaves public/index.html as it was
\* and the process running, and sets an error text on the status line of
\* index.html: the text asks whether index.html is a file when the source is
\* not a regular file, and carries the message of the error otherwise.
C22_CopyFailureShownWithDiagnostic ==
    \A h \in Ids :
        CopyFailed(h) =>
            /\ handlers[h].outcome = "error" /\ handlers[h].terminal = 1
            /\ ~handlers[h].wrote /\ artifacts[index] # h
            /\ h \notin logged /\ h \notin unhandled
            /\ SourceNotAFile(h) =>
                   errorDetail(handlers[h].error) = "Could not copy \"index.html\". Is it a file?"
            /\ ~SourceNotAFile(h) =>
                   errorDetail(handlers[h].error) = "ENOENT: no such file or directory, copyfile"
            /\ Latest(index) = h => spinners[index] = errorMessage(index, handlers[h].error)

\* ---------------------------------------------------------------- C23

\* h set the built text on the status line of its file
SetBuilt(h) == handlers[h].outcome = "built" /\ handlers[h].terminal = 1

\* C23: a build that set the built text had written its artifact before: no
\* handler ended with the built text without having written, a failed write
\* ends with an error and never with the built text, and a status line that
\* reads built belongs to a file some build of which has written and set it.
C23_BuiltOnlyAfterArtifactWritten ==
    /\ \A h \in Ids : SetBuilt(h) => handlers[h].wrote /\ artifacts[handlers[h].file] # 0
    /\ \A h \in Ids : (Done(h) /\ handlers[h].error = WriteError) => ~SetBuilt(h)
    /\ \A file \in Files :
           spinners[file] = builtMessage(file)
               => \E h \in HandlersOf(file) : SetBuilt(h) /\ handlers[h].wrote

\* every path reads built, each after its own build wrote its artifact
C23_Witness ==
    \A file \in Files :
        /\ spinners[file] = builtMessage(file)
        /\ artifacts[file] # 0
        /\ handlers[artifacts[file]].wrote

\* ---------------------------------------------------------------- C24

\* the error is the failure of a subprocess that left no output and was not
\* killed by cancel()
SilentFailure(error) ==
    /\ error.failed /\ ~error.isCanceled
    /\ error.stderr = "" /\ error.stdout = ""

\* C24: the handler calls process.exit(1) only for the failure of a
\* subprocess that has no stdout, no stderr and is not a cancellation: the
\* handlers that ended with the exit are exactly those whose catch block got
\* such an error, the process has exited only when there is one, and a
\* killed child, with or without output, ends its handler silently.
C24_ExitOnlyOnSilentFailure ==
    /\ \A h \in Ids :
           Done(h) => (handlers[h].outcome = "fatal" <=> SilentFailure(handlers[h].error))
    /\ \A h \in Ids :
           (Done(h) /\ handlers[h].error.isCanceled) => handlers[h].outcome = "cancelled"
    /\ process = "exit1" <=> \E h \in Ids : handlers[h].outcome = "fatal"
    /\ logged = {h \in Ids : handlers[h].outcome = "fatal"}

\* a child killed by cancel() that left no output ended its handler
\* silently, a diagnosed failure was shown, and a later failure without
\* output ended the process
C24_Witness ==
    \E g \in Ids, h \in Ids :
        /\ handlers[g].outcome = "cancelled"
        /\ handlers[g].error.stderr = "" /\ handlers[g].error.stdout = ""
        /\ handlers[h].outcome = "fatal"
        /\ process = "exit1"

\* ---------------------------------------------------------------- C25

\* C25: the handler of an event for index.html has no await: every handler
\* of index.html has run to its end in the step its event arrived, and the
\* status line of index.html never reads building; it is absent, the startup
\* or the missing notice, the built text or an error text.
C25_IndexNeverLeftBuilding ==
    /\ \A h \in HandlersOf(index) : Done(h) /\ handlers[h].building
    /\ spinners[index] # buildingMessage(index)
    /\ \/ spinners[index] \in {NoSpinner, StartupNotice, MissingNotice, builtMessage(index)}
       \/ \E h \in HandlersOf(index) :
              /\ handlers[h].outcome = "error"
              /\ spinners[index] = errorMessage(index, handlers[h].error)

\* index.html was copied, then deleted, then a copy of it failed: each
\* handler set the building text and replaced it before it ended
C25_Witness ==
    /\ Cardinality(HandlersOf(index)) = 3
    /\ \E h \in HandlersOf(index) : handlers[h].outcome = "built"
    /\ \E h \in HandlersOf(index) : handlers[h].outcome = "missing"
    /\ \E h \in HandlersOf(index) :
           /\ Latest(index) = h
           /\ handlers[h].outcome = "error"
           /\ spinners[index] = errorMessage(index, handlers[h].error)

\* ---------------------------------------------------------------- C26

\* the handler of the latest event for file is that of an add or change and
\* has not run to its end
LatestInFlight(file) ==
    /\ Latest(file) # 0
    /\ Builds(Latest(file))
    /\ Pending(Latest(file))

\* C26: whenever the status line of src/main.scss or src/main.js reads
\* building, the build the latest event for that file started is in flight.
C26_BuildingMeansLatestInFlight ==
    \A file \in {sass, js} :
        spinners[file] = buildingMessage(file) => LatestInFlight(file)

\* the build the latest event for file started ended in process.exit(1)
LatestExited(file) ==
    /\ Latest(file) # 0
    /\ handlers[Latest(file)].outcome = "fatal"
    /\ process = "exit1"

\* C26, with the exit of line 180 set apart: whenever the status line of
\* src/main.scss or src/main.js reads building, the build the latest event
\* for that file started is in flight, or it has ended the process with
\* process.exit(1), the one end of a build that leaves the building text.
C26_BuildingMeansLatestInFlightUnlessExited ==
    \A file \in {sass, js} :
        spinners[file] = buildingMessage(file)
            => LatestInFlight(file) \/ LatestExited(file)

\* a build of src/main.scss was killed by the next event and ended silently
\* while the build of that event is in flight under the building text, and a
\* build of src/main.js has ended and replaced its building text
C26_Witness ==
    /\ \E g \in HandlersOf(sass) : handlers[g].outcome = "cancelled"
    /\ spinners[sass] = buildingMessage(sass)
    /\ LatestInFlight(sass)
    /\ \E h \in HandlersOf(js) : Done(h) /\ handlers[h].outcome \in {"built", "error"}
    /\ process = "running"

\* ---------------------------------------------------------------- C27

\* the handlers of the add and change events for src/main.scss: those that
\* started a Sass child
SassBuilds == {h \in HandlersOf(sass) : Builds(h)}

\* C27: the registry entry of src/main.scss is empty as long as no add or
\* change of src/main.scss has arrived, and from then on it is the child
\* started by the latest of them: an unlink does not clear it. A Sass child
\* that is running is the registered one, so the next cancel() reaches it;
\* nothing is ever registered for the other two paths.
C27_RegistryHoldsLatestSassChild ==
    /\ subprocesses[sass] =
           (IF SassBuilds = {} THEN 0
            ELSE CHOOSE h \in SassBuilds : \A g \in SassBuilds : g <= h)
    /\ \A h \in Ids : proc[h] = "running" => subprocesses[sass] = h
    /\ \A h \in Ids : proc[h] # "none" <=> h \in SassBuilds
    /\ subprocesses[js] = 0 /\ subprocesses[index] = 0

\* src/main.scss was added, deleted while its child ran, and added again:
\* the registry kept the killed child over the unlink and now holds the
\* running one
C27_Witness ==
    \E g \in SassBuilds, u \in HandlersOf(sass), h \in SassBuilds :
        /\ Successive(g, u) /\ Successive(u, h)
        /\ handlers[u].event = "unlink"
        /\ proc[g] = "killed"
        /\ proc[h] = "running"
        /\ subprocesses[sass] = h

====
